---------------------------- MODULE Spec2Model ----------------------------
(***************************************************************************)
(* A model of the Telegram chat bot: the Redis-backed context store        *)
(* (services/context_manager.py), the completion service with its          *)
(* fallback backend (services/ai_service.py) and the message pipeline      *)
(* (handlers/message_handler.py).                                          *)
(*                                                                         *)
(* Text is a sequence of symbols (a symbol is one character, or one fixed  *)
(* literal of the source taken as a unit), so that concatenation, the      *)
(* substring test and lower-casing are computed, not assumed.              *)
(***************************************************************************)
EXTENDS Integers, Sequences, FiniteSets, TLC

VARIABLES
    redis,      \* the backing store: key -> list of stored strings, head first
    ttl,        \* key -> seconds to live (0: no expiry set, or no such key)
    nIns,       \* observer: how many pushes the store has seen so far
    ret,        \* observer: the last store operation, its arguments and outcome
    settings,   \* Settings, as get_settings() loaded them
    service,    \* the AIService instance: its models and whether it has a fallback client
    proc,       \* per pipeline: where it is suspended, its locals, the backend calls it made
    sent,       \* the transport: what each pipeline's current run has delivered
    nUpdates,   \* observer: how many updates have been dispatched so far
    faulted     \* observer: a store call of a pipeline was refused, or a delivery failed

storeVars == <<redis, ttl, nIns, ret>>
pipeVars == <<settings, service, proc, sent, nUpdates, faulted>>
vars == <<redis, ttl, nIns, ret, settings, service, proc, sent, nUpdates, faulted>>

(***************************************************************************)
(* Bounds of the model.                                                    *)
(***************************************************************************)
\* The total number of pushes in one behaviour.
MaxIns == 3
\* The largest limit / max_size argument that is tried.
MaxArg == 2

\* Python's None, where a text may stand: a text of one symbol that is no
\* character.
None == <<"None">>

Min(a, b) == IF a < b THEN a ELSE b
Max(a, b) == IF a > b THEN a ELSE b

Reverse(s) == [i \in 1..Len(s) |-> s[Len(s) + 1 - i]]

RECURSIVE SelectIdx(_, _, _)
\* The indexes i of s, in increasing order from i, with keep[i].
SelectIdx(keep, n, i) ==
    IF i > n THEN <<>>
    ELSE IF keep[i] THEN <<i>> \o SelectIdx(keep, n, i + 1)
    ELSE SelectIdx(keep, n, i + 1)

(***************************************************************************)
(* Redis lists, with the index rules of LRANGE and LTRIM: indexes are      *)
(* 0-based, a negative index counts from the tail (-1 is the last          *)
(* element), an out-of-range stop is clamped, and start > stop is empty.   *)
(* A list that becomes empty is a key that no longer exists.               *)
(***************************************************************************)
RedisWindow(list, start, stop) ==
    LET n  == Len(list)
        s0 == IF start < 0 THEN Max(n + start, 0) ELSE start
        e0 == IF stop < 0 THEN n + stop ELSE Min(stop, n - 1)
    IN  IF s0 > e0 \/ s0 >= n THEN <<>> ELSE SubSeq(list, s0 + 1, e0 + 1)

LRANGE(r, key, start, stop) == RedisWindow(r[key], start, stop)

LLEN(r, key) == Len(r[key])

(***************************************************************************)
(* Keys.  A key is the tuple of its ':'-separated parts.                   *)
(***************************************************************************)
\* Two chats, the id of one a textual prefix of the id of the other.
Chats == {1, 12}
Users == {1}

context_key_prefix == "chat_context"
user_context_key_prefix == "user_context"

get_context_key(chat_id) == <<context_key_prefix, chat_id>>
get_user_context_key(chat_id, user_id) == <<user_context_key_prefix, chat_id, user_id>>

\* The users that may have a participant history: the sender of the
\* pipeline's updates and one more.
Participants == Users \cup {2}

Keys == {get_context_key(c) : c \in Chats}
          \cup {get_user_context_key(c, u) : c \in Chats, u \in Participants}

TTL_SECONDS == 86400


(***************************************************************************)
(* ChatMessage (context_manager.py:14-31) and its stored form.             *)
(*                                                                         *)
(* A stored string is modelled by what json.loads makes of it: the kind of *)
(* JSON value, and for an object its members (`missing` names the absent   *)
(* ones).  A timestamp member is a string in ISO format carrying the time, *)
(* a string that is not ISO, or a number.  `ins` is an observer field: the *)
(* number of the push that stored the string; no operation reads it.       *)
(***************************************************************************)
ChatMessage(user_id, username, message, timestamp, message_id) ==
    [user_id |-> user_id, username |-> username, message |-> message,
     timestamp |-> timestamp, message_id |-> message_id]

\* datetime.isoformat(): the text form of a timestamp.
isoformat(t) == [type |-> "str", iso |-> TRUE, t |-> t]

\* datetime.fromisoformat() of a text in ISO format.
fromisoformat(x) == x.t

\* The mutant of Dumps that leaves out the members whose value is None or 0.
Dumps_omit_falsy(message) ==
    [json |-> "object",
     missing |-> {f \in {"username"} : message.username = None}
                    \cup {f \in {"message_id"} : message.message_id = 0},
     obj |-> [user_id |-> message.user_id,
              username |-> message.username,
              message |-> message.message,
              timestamp |-> isoformat(message.timestamp),
              message_id |-> message.message_id]]

\* json.dumps(message_data) of add_message / add_user_message.
Dumps(message) ==
    [json |-> "object",
     missing |-> {},
     obj |-> [user_id |-> message.user_id,
              username |-> message.username,
              message |-> message.message,
              timestamp |-> isoformat(message.timestamp),
              message_id |-> message.message_id]]

Stored(data, n) == [data |-> data, ins |-> n]

(***************************************************************************)
(* The body of the read loop: what one stored string decodes to.           *)
(*   "skip"  : JSONDecodeError, KeyError or ValueError, which are caught;  *)
(*   "raise" : TypeError (subscripting a JSON value that is no object,     *)
(*             fromisoformat of a number), which is not caught;            *)
(*   "ok"    : a ChatMessage.                                              *)
(* The members are read in the order user_id, username, message,           *)
(* timestamp (and its parse), message_id.                                  *)
(***************************************************************************)
DecodeOutcome(data) ==
    IF data.json = "invalid" THEN "skip"
    ELSE IF data.json # "object" THEN "raise"
    ELSE IF "user_id" \in data.missing THEN "skip"
    ELSE IF "message" \in data.missing THEN "skip"
    ELSE IF "timestamp" \in data.missing THEN "skip"
    ELSE IF data.obj.timestamp.type # "str" THEN "raise"
    ELSE IF ~data.obj.timestamp.iso THEN "skip"
    ELSE IF "message_id" \in data.missing THEN "skip"
    ELSE "ok"

Decode(data) ==
    ChatMessage(data.obj.user_id,
                IF "username" \in data.missing THEN None ELSE data.obj.username,
                data.obj.message,
                fromisoformat(data.obj.timestamp),
                data.obj.message_id)

\* Whether the read loop over messages_data ends in an uncaught exception.
ReadRaises(messages_data) ==
    \E i \in 1..Len(messages_data) : DecodeOutcome(messages_data[i].data) = "raise"

\* The mutant of ReadEntries that forgets the final reversal.
ReadEntriesNoReverse(messages_data) ==
    LET keep == [i \in 1..Len(messages_data) |->
                    DecodeOutcome(messages_data[i].data) = "ok"]
        idx  == SelectIdx(keep, Len(messages_data), 1)
    IN  [i \in 1..Len(idx) |->
            [msg |-> Decode(messages_data[idx[i]].data), ins |-> messages_data[idx[i]].ins]]

\* The mutant of ReadEntries that orders the result by timestamp.
ReadEntriesByTimestamp(messages_data) ==
    LET r == Reverse(ReadEntriesNoReverse(messages_data))
    IN  SortSeq(r, LAMBDA a, b : a.msg.timestamp < b.msg.timestamp)

\* The read loop of get_context / get_user_context and the reversal that
\* follows it: the decoded messages, oldest first, each with its observer
\* field.
ReadEntries(messages_data) ==
    LET keep == [i \in 1..Len(messages_data) |->
                    DecodeOutcome(messages_data[i].data) = "ok"]
        idx  == SelectIdx(keep, Len(messages_data), 1)
        out  == [i \in 1..Len(idx) |->
                    [msg |-> Decode(messages_data[idx[i]].data),
                     ins |-> messages_data[idx[i]].ins]]
    IN  Reverse(out)

Msgs(entries) == [i \in 1..Len(entries) |-> entries[i].msg]
Inss(entries) == [i \in 1..Len(entries) |-> entries[i].ins]

(***************************************************************************)
(* ContextManager.  The store is the record S of redis, ttl and nIns; an   *)
(* operation is a function of S and its arguments.                         *)
(***************************************************************************)
Store == [redis |-> redis, ttl |-> ttl, nIns |-> nIns]

\* redis_client.lpush(key, value)
LPUSH(S, key, data) ==
    [S EXCEPT !.redis[key] = <<Stored(data, S.nIns + 1)>> \o @,
              !.nIns = @ + 1]

\* The mutant of EXPIRE that leaves a time-to-live that is running alone.
EXPIRE_if_none(S, key, seconds) ==
    IF S.redis[key] = <<>> \/ S.ttl[key] > 0 THEN S ELSE [S EXCEPT !.ttl[key] = seconds]

\* redis_client.expire(key, seconds): no effect on a key that does not exist.
\* ttl[key] is the time the key has left, 0 for a key without expiry.
EXPIRE(S, key, seconds) ==
    IF S.redis[key] = <<>> THEN S ELSE [S EXCEPT !.ttl[key] = seconds]

\* The mutant of LTRIM that keeps one element more than the window.
LTRIMOneMore(S, key, start, stop) ==
    LET kept == RedisWindow(S.redis[key], start, stop + 1)
    IN  [S EXCEPT !.redis[key] = kept,
                  !.ttl[key] = IF kept = <<>> THEN 0 ELSE @]

\* redis_client.ltrim(key, start, stop)
LTRIM(S, key, start, stop) ==
    LET kept == RedisWindow(S.redis[key], start, stop)
    IN  [S EXCEPT !.redis[key] = kept,
                  !.ttl[key] = IF kept = <<>> THEN 0 ELSE @]

\* redis_client.delete(key)
DEL(S, key) == [S EXCEPT !.redis[key] = <<>>, !.ttl[key] = 0]

add_message(S, chat_id, message) ==
    LET key == get_context_key(chat_id)
    IN  EXPIRE(LPUSH(S, key, Dumps(message)), key, TTL_SECONDS)

add_user_message(S, chat_id, user_id, message) ==
    LET key == get_user_context_key(chat_id, user_id)
    IN  EXPIRE(LPUSH(S, key, Dumps(message)), key, TTL_SECONDS)

get_context_data(S, chat_id, limit) ==
    LRANGE(S.redis, get_context_key(chat_id), 0, limit - 1)

get_context(S, chat_id, limit) == ReadEntries(get_context_data(S, chat_id, limit))

get_user_context_data(S, chat_id, user_id, limit) ==
    LRANGE(S.redis, get_user_context_key(chat_id, user_id), 0, limit - 1)

get_user_context(S, chat_id, user_id, limit) ==
    ReadEntries(get_user_context_data(S, chat_id, user_id, limit))

\* The mutant of clear_context that clears by trimming to the size 0.
clear_context_by_trim(S, chat_id) == LTRIM(S, get_context_key(chat_id), 0, 0 - 1)

\* The mutant of clear_context that also deletes the participant histories
\* of the chat.
clear_context_with_users(S, chat_id) ==
    LET T == DEL(S, get_context_key(chat_id))
    IN  [T EXCEPT !.redis = [k \in Keys |->
                                IF Len(k) = 3 /\ k[2] = chat_id THEN <<>> ELSE @[k]],
                  !.ttl = [k \in Keys |->
                                IF Len(k) = 3 /\ k[2] = chat_id THEN 0 ELSE @[k]]]

clear_context(S, chat_id) == DEL(S, get_context_key(chat_id))

get_context_size(S, chat_id) == LLEN(S.redis, get_context_key(chat_id))

\* The mutant of trim_context that keeps the oldest entries.
trim_context_keep_oldest(S, chat_id, max_size) ==
    IF max_size = 0 THEN LTRIM(S, get_context_key(chat_id), 0, 0 - 1)
    ELSE LTRIM(S, get_context_key(chat_id), 0 - max_size, 0 - 1)

trim_context(S, chat_id, max_size) ==
    LTRIM(S, get_context_key(chat_id), 0, max_size - 1)

(***************************************************************************)
(* get_chat_users.  Redis holds a list under the text of its key, and      *)
(* SCAN matches and yields these texts.  SCAN yields every key that exists *)
(* throughout the scan at least once and may yield a key more than once;   *)
(* here the texts come in a fixed order, with at most one of them repeated *)
(* at the end.                                                             *)
(***************************************************************************)
RECURSIVE Digits(_)
\* str(n) of an integer n >= 0 inside an f-string: its decimal digits.
Digits(n) ==
    IF n < 10 THEN <<ToString(n)>> ELSE Digits(n \div 10) \o <<ToString(n % 10)>>

\* f"{prefix}:{chat_id}" and f"{prefix}:{chat_id}:{user_id}", the prefix as
\* one symbol.
key_text(key) ==
    IF Len(key) = 2
    THEN <<key[1], ":">> \o Digits(key[2])
    ELSE <<key[1], ":">> \o Digits(key[2]) \o <<":">> \o Digits(key[3])

\* Keys of another writer that the pattern of chat 1 matches: a user part
\* that is no integer, and a fourth part.
ForeignNames ==
    {<<user_context_key_prefix, ":", "1", ":", "x">>,
     <<user_context_key_prefix, ":", "1", ":", "1", ":", "3">>}

\* match=f"{prefix}:{chat_id}:*": the text begins with what precedes the *.
Matches(text, chat_id) ==
    LET pattern == <<user_context_key_prefix, ":">> \o Digits(chat_id) \o <<":">>
    IN  /\ Len(text) >= Len(pattern)
        /\ SubSeq(text, 1, Len(pattern)) = pattern

RECURSIVE Split(_, _)
\* text.split(sep)
Split(text, sep) ==
    IF \A i \in 1..Len(text) : text[i] # sep THEN <<text>>
    ELSE LET i == CHOOSE i \in 1..Len(text) :
                      text[i] = sep /\ \A j \in 1..(i - 1) : text[j] # sep
         IN  <<SubSeq(text, 1, i - 1)>> \o Split(SubSeq(text, i + 1, Len(text)), sep)

\* int(text) raises ValueError unless the text is a numeral; the texts here
\* carry no sign, blank or underscore.
IsNumeral(text) ==
    /\ text # <<>>
    /\ \A i \in 1..Len(text) : \E d \in 0..9 : text[i] = ToString(d)

RECURSIVE IntOf(_)
IntOf(text) ==
    IF text = <<>> THEN 0
    ELSE 10 * IntOf(SubSeq(text, 1, Len(text) - 1))
            + (CHOOSE d \in 0..9 : text[Len(text)] = ToString(d))

\* The texts of the keys that exist (a list that is empty is no key) and
\* match the pattern of the chat, and the foreign ones among `foreign`.
MatchingNames(S, chat_id, foreign) ==
    {key_text(k) : k \in {x \in Keys : S.redis[x] # <<>> /\ Matches(key_text(x), chat_id)}}
        \cup {n \in foreign : Matches(n, chat_id)}

\* All texts that can exist, in the order in which the scan walks them.
ScanOrder ==
    <<key_text(get_context_key(1)), key_text(get_context_key(12)),
      key_text(get_user_context_key(12, 2)),
      <<user_context_key_prefix, ":", "1", ":", "x">>,
      key_text(get_user_context_key(1, 2)), key_text(get_user_context_key(12, 1)),
      <<user_context_key_prefix, ":", "1", ":", "1", ":", "3">>,
      key_text(get_user_context_key(1, 1))>>

\* What scan_iter(match=pattern) may yield.
Scans(S, chat_id, foreign) ==
    LET names == MatchingNames(S, chat_id, foreign)
        once  == SelectSeq(ScanOrder, LAMBDA n : n \in names)
    IN  {once} \cup {Append(once, n) : n \in names}

RECURSIVE get_chat_users(_)
\* The loop of get_chat_users over the yielded keys.
get_chat_users(keys) ==
    IF keys = <<>> THEN <<>>
    ELSE LET parts == Split(Head(keys), ":")
         IN  IF Len(parts) = 3 /\ IsNumeral(parts[3])
             THEN <<IntOf(parts[3])>> \o get_chat_users(Tail(keys))
             ELSE get_chat_users(Tail(keys))


(***************************************************************************)
(* Text.  str.lower(), str.strip("@"), the `in` test and concatenation.    *)
(***************************************************************************)
LowerSym(c) ==
    CASE c = "A" -> "a"
      [] c = "B" -> "b"
      [] c = "O" -> "o"
      [] c = "T" -> "t"
      [] OTHER   -> c

Lower(s) == [i \in 1..Len(s) |-> LowerSym(s[i])]

RECURSIVE LStrip(_, _)
LStrip(s, c) == IF s # <<>> /\ Head(s) = c THEN LStrip(Tail(s), c) ELSE s

\* str.strip(c): every leading and every trailing c is removed.
Strip(s, c) == Reverse(LStrip(Reverse(LStrip(s, c)), c))

\* a in b
IsSubstring(a, b) ==
    \E i \in 0..(Len(b) - Len(a)) : SubSeq(b, i + 1, i + Len(a)) = a

\* Python's truth value of an optional string.
Truthy(x) == x # None /\ x # <<>>

RECURSIVE Join(_, _)
\* sep.join(parts)
Join(parts, sep) ==
    IF parts = <<>> THEN <<>>
    ELSE IF Len(parts) = 1 THEN parts[1]
    ELSE parts[1] \o sep \o Join(Tail(parts), sep)

\* str(n) of an integer, as one symbol.
Str(n) == <<ToString(n)>>

(***************************************************************************)
(* AIService (ai_service.py).                                              *)
(***************************************************************************)
\* The default of BASE_PROMPT, as one symbol.
BASE_PROMPT ==
    <<"You are a helpful assistant in a Telegram chat. You maintain context and respond when mentioned. Always respond naturally without including your username.">>
NO_USERNAME_INSTRUCTION ==
    <<"\n\nIMPORTANT: When responding, do NOT include your username in your response. Simply provide a natural response without identifying yourself by name.">>
USER_HISTORY_HEADER == <<"\n\nRelevant user history:\n">>
\* The Russian literals of the source are written in Latin letters.
CANNOT_ANSWER == <<"Izvinite, ne mogu sformirovat' otvet.">>
ERROR_MARKER == <<"Proizoshla oshibka pri obrabotke zaprosa: ">>

PRIMARY_MODEL == <<"gpt-4o-mini">>
FALLBACK_MODEL == <<"fallback_model">>

AIResponse(content, tokens_used, model_used) ==
    [content |-> content, tokens_used |-> tokens_used, model_used |-> model_used]

\* tokens_used is None: written -1, so that it compares with a count.
NoTokens == 0 - 1
NoResponse == AIResponse(None, NoTokens, None)

\* AIService.__init__: the fallback client exists iff a fallback
\* configuration is passed.
AIService(ai_model, bot_config, fallback_ai_config) ==
    [model |-> ai_model,
     fallback_client |-> fallback_ai_config # None,
     fallback_model |-> IF fallback_ai_config # None THEN fallback_ai_config ELSE None,
     base_prompt |-> bot_config.base_prompt,
     trigger_words |-> bot_config.trigger_words]

Turn(role, content) == [role |-> role, content |-> content]

\* One chat-history message as a turn (the loop body of
\* _format_context_messages).
format_turn(msg, bot_username) ==
    LET is_bot_message ==
            /\ Truthy(bot_username)
            /\ Truthy(msg.username)
            /\ Lower(msg.username) = Strip(Lower(bot_username), "@")
        username == IF Truthy(msg.username) THEN msg.username
                    ELSE <<"u", "s", "e", "r", "_">> \o Str(msg.user_id)
    IN  IF is_bot_message
        THEN Turn("assistant", msg.message)
        ELSE Turn("user", username \o <<":", " ">> \o msg.message)

\* The optional argument user_context: a list, or None.
Some(list) == [some |-> TRUE, list |-> list]
Absent == [some |-> FALSE, list |-> <<>>]

\* The mutant of format_context_messages that writes the user-history block
\* whenever a participant history is supplied, empty or not.
format_context_messages_block_when_supplied(svc, context, bot_username, user_context) ==
    LET base == svc.base_prompt \o NO_USERNAME_INSTRUCTION
        lines == [i \in 1..Len(user_context.list) |->
                     (IF Truthy(user_context.list[i].username)
                      THEN user_context.list[i].username
                      ELSE <<"U", "s", "e", "r">>)
                     \o <<":", " ">> \o user_context.list[i].message]
        system_content ==
            IF user_context.some
            THEN base \o USER_HISTORY_HEADER \o Join(lines, <<"\n">>)
            ELSE base
    IN  <<Turn("system", system_content)>>
            \o [i \in 1..Len(context) |-> format_turn(context[i], bot_username)]

format_context_messages(svc, context, bot_username, user_context) ==
    LET base == svc.base_prompt \o NO_USERNAME_INSTRUCTION
        lines == [i \in 1..Len(user_context.list) |->
                     (IF Truthy(user_context.list[i].username)
                      THEN user_context.list[i].username
                      ELSE <<"U", "s", "e", "r">>)
                     \o <<":", " ">> \o user_context.list[i].message]
        system_content ==
            IF user_context.some /\ user_context.list # <<>>
            THEN base \o USER_HISTORY_HEADER \o Join(lines, <<"\n">>)
            ELSE base
    IN  <<Turn("system", system_content)>>
            \o [i \in 1..Len(context) |-> format_turn(context[i], bot_username)]

\* The mutant of request_messages that appends the current message without
\* looking at the last turn.
request_messages_always_append(svc, context, current_message, mentioned_username, user_context) ==
    Append(format_context_messages(svc, context, mentioned_username, user_context),
           Turn("user", current_message))

\* The turns generate_response sends: the formatted context, and the current
\* message as one more user turn unless the last turn's content contains it.
request_messages(svc, context, current_message, mentioned_username, user_context) ==
    LET messages == format_context_messages(svc, context, mentioned_username, user_context)
        last_message_content == messages[Len(messages)].content
    IN  IF ~IsSubstring(current_message, last_message_content)
        THEN Append(messages, Turn("user", current_message))
        ELSE messages

\* What a backend call comes back with: a response (its content may be None
\* or empty, its usage may be None), or an exception with its text.
Completion(content, usage) ==
    [ok |-> TRUE, content |-> content, usage |-> usage, error |-> <<>>]
Failure(error) ==
    [ok |-> FALSE, content |-> None, usage |-> NoTokens, error |-> error]

\* The mutant of success_response that passes the content on as it came.
success_response_raw(outcome, model_used) ==
    AIResponse(outcome.content, outcome.usage, model_used)

\* The return statement after a successful call.
success_response(outcome, model_used) ==
    AIResponse(IF Truthy(outcome.content) THEN outcome.content ELSE CANNOT_ANSWER,
               outcome.usage,
               model_used)

\* The outer except clause.
error_response(e) == AIResponse(ERROR_MARKER \o e, NoTokens, None)

\* The mutant of primary_step that goes on to the fallback whether or not one
\* is configured and whether or not the primary succeeded.
primary_step_always_fallback(svc, outcome) ==
    [pc |-> "fallback", response |-> NoResponse]

\* The mutant of primary_step that asks the fallback for a second opinion
\* after the primary has answered.
primary_step_second_opinion(svc, outcome) ==
    IF ~svc.fallback_client
    THEN IF outcome.ok
         THEN [pc |-> "return", response |-> success_response(outcome, svc.model)]
         ELSE [pc |-> "return", response |-> error_response(outcome.error)]
    ELSE [pc |-> "fallback", response |-> NoResponse]

\* The mutant of primary_step in which the exception re-raised without a
\* fallback client leaves generate_response.
primary_step_reraise_escapes(svc, outcome) ==
    IF outcome.ok
    THEN [pc |-> "return", response |-> success_response(outcome, svc.model)]
    ELSE IF ~svc.fallback_client
    THEN [pc |-> "raise", response |-> NoResponse]
    ELSE [pc |-> "fallback", response |-> NoResponse]

\* After the primary call: return its answer; or, on an exception, re-raise
\* into the outer except clause when there is no fallback client, and call
\* the fallback otherwise.
primary_step(svc, outcome) ==
    IF outcome.ok
    THEN [pc |-> "return", response |-> success_response(outcome, svc.model)]
    ELSE IF ~svc.fallback_client
    THEN [pc |-> "return", response |-> error_response(outcome.error)]
    ELSE [pc |-> "fallback", response |-> NoResponse]

\* The mutant of fallback_step that reports the primary's model.
fallback_step_primary_model(svc, outcome) ==
    [pc |-> "return",
     response |-> IF outcome.ok THEN success_response(outcome, svc.model)
                  ELSE error_response(outcome.error)]

\* The mutant of fallback_step that lets the fallback's exception escape.
fallback_step_raises(svc, outcome) ==
    IF outcome.ok
    THEN [pc |-> "return", response |-> success_response(outcome, svc.fallback_model)]
    ELSE [pc |-> "raise", response |-> NoResponse]

\* After the fallback call: return its answer, or let its exception reach
\* the outer except clause.
fallback_step(svc, outcome) ==
    [pc |-> "return",
     response |-> IF outcome.ok THEN success_response(outcome, svc.fallback_model)
                  ELSE error_response(outcome.error)]

\* The mutant of should_respond_to_message that tests the containment the
\* other way round: the message in the name, the message in the word.
should_respond_to_message_reversed(svc, message, bot_username) ==
    LET message_lower == Lower(message)
    IN  \/ Truthy(bot_username) /\ IsSubstring(message_lower, Lower(bot_username))
        \/ \E word \in svc.trigger_words : IsSubstring(message_lower, Lower(word))

\* should_respond_to_message; trigger_words is taken as the set of its words.
should_respond_to_message(svc, message, bot_username) ==
    LET message_lower == Lower(message)
    IN  \/ Truthy(bot_username) /\ IsSubstring(Lower(bot_username), message_lower)
        \/ \E word \in svc.trigger_words : IsSubstring(Lower(word), message_lower)

(***************************************************************************)
(* The store on its own: every ContextManager operation called with        *)
(* arguments from small sets, a second writer that pushes strings the      *)
(* bot did not write, and a Redis that may refuse any single command.      *)
(***************************************************************************)
\* A message, which stored twice gives two entries with the same timestamp,
\* and one with an earlier timestamp, no username and the message id 0.
StoreMessages ==
    { ChatMessage(1, <<"a">>, <<"h", "i">>, 1, 7),
      ChatMessage(2, None, <<"o", "k">>, 0, 0) }

\* Strings of another writer: an object without message_id (skipped by a
\* read) and a JSON array (on which a read raises).
ForeignData ==
    LET good == Dumps(ChatMessage(1, <<"a">>, <<"h", "i">>, 1, 7))
    IN  { [good EXCEPT !.missing = {"message_id"}],
          [good EXCEPT !.json = "array"] }

Args == 0..MaxArg

NoRet == [op |-> "none", chat_id |-> 0, user_id |-> 0, arg |-> 0,
          raised |-> FALSE, value |-> <<>>, ins |-> <<>>]

Ret(op, chat_id, user_id, arg, raised, value, ins) ==
    [op |-> op, chat_id |-> chat_id, user_id |-> user_id, arg |-> arg,
     raised |-> raised, value |-> value, ins |-> ins]

SetStore(S) ==
    /\ redis' = S.redis
    /\ ttl' = S.ttl
    /\ nIns' = S.nIns

StoreInit ==
    /\ redis = [k \in Keys |-> <<>>]
    /\ ttl = [k \in Keys |-> 0]
    /\ nIns = 0
    /\ ret = NoRet

BotConfig(base_prompt, context_window_size, trigger_words) ==
    [base_prompt |-> base_prompt, context_window_size |-> context_window_size,
     trigger_words |-> trigger_words]

\* Settings: the fallback configuration (None, or its model id), the bot's
\* username (None when BOT_USERNAME is not set) and the bot configuration.
Settings(bot_username, fallback_ai, bot) ==
    [telegram |-> [bot_username |-> bot_username],
     ai |-> PRIMARY_MODEL,
     fallback_ai |-> fallback_ai,
     bot |-> bot]

\* The settings of the test fixture (tests/conftest.py).
mock_settings ==
    Settings(<<"t", "e", "s", "t", "_", "b", "o", "t">>, None,
             BotConfig(<<"Test prompt">>, 10, {<<"t", "e", "s", "t">>, <<"b", "o", "t">>}))

\* The arguments of generate_response other than the current message, kept
\* by the observer.
Arguments(context, mentioned_username, user_context) ==
    [context |-> context, mentioned_username |-> mentioned_username,
     user_context |-> user_context]

NoArguments == Arguments(<<>>, None, Absent)

IdleProc ==
    [pc |-> "idle", caller |-> "none", chat_id |-> 0, user_id |-> 0, text |-> <<>>,
     should_respond |-> "unset", args |-> NoArguments, messages |-> <<>>,
     calls |-> <<>>, response |-> NoResponse, failures |-> 0, fault |-> "none",
     escaped |-> FALSE]

Procs == {1, 2}

\* No pipeline runs: the state of the parts a specification does not use.
PipeIdle ==
    /\ settings = mock_settings
    /\ service = AIService(mock_settings.ai, mock_settings.bot, None)
    /\ proc = [p \in Procs |-> IdleProc]
    /\ sent = <<>>
    /\ nUpdates = 0
    /\ faulted = FALSE

StoreOnlyInit == StoreInit /\ PipeIdle

\* The mutant of Refused in which the reads, the size and the listing of
\* users catch the exception of Redis and return an empty result.
Refused_swallowed(op) ==
    CASE op \in {"get_context", "get_user_context"} -> Ret(op, 0, 0, 0, FALSE, <<>>, <<>>)
      [] op = "get_context_size" -> Ret(op, 0, 0, 0, FALSE, 0, <<>>)
      [] op = "get_chat_users" ->
            Ret(op, 0, 0, 0, FALSE, [keys |-> <<>>, user_ids |-> <<>>], <<>>)
      [] OTHER -> Ret(op, 0, 0, 0, TRUE, <<>>, <<>>)

\* A refused Redis command raises out of the operation: no operation has a
\* handler around its Redis commands (the handler of the read loops encloses
\* the decoding of an entry only).  The observer keeps the operation's name
\* only, with the chat id 0, which no chat has.
Refused(op) == Ret(op, 0, 0, 0, TRUE, <<>>, <<>>)

AddMessage(chat_id, message) ==
    /\ nIns < MaxIns
    /\ SetStore(add_message(Store, chat_id, message))
    /\ ret' = Ret("add_message", chat_id, 0, 0, FALSE, <<>>, <<>>)
    /\ UNCHANGED pipeVars

AddUserMessage(chat_id, user_id, message) ==
    /\ nIns < MaxIns
    /\ SetStore(add_user_message(Store, chat_id, user_id, message))
    /\ ret' = Ret("add_user_message", chat_id, user_id, 0, FALSE, <<>>, <<>>)
    /\ UNCHANGED pipeVars

GetContext(chat_id, limit) ==
    /\ LET data == get_context_data(Store, chat_id, limit)
           out  == get_context(Store, chat_id, limit)
       IN  ret' = IF ReadRaises(data)
                  THEN Ret("get_context", chat_id, 0, limit, TRUE, <<>>, <<>>)
                  ELSE Ret("get_context", chat_id, 0, limit, FALSE, Msgs(out), Inss(out))
    /\ UNCHANGED <<redis, ttl, nIns>>
    /\ UNCHANGED pipeVars

GetUserContext(chat_id, user_id, limit) ==
    /\ LET data == get_user_context_data(Store, chat_id, user_id, limit)
           out  == get_user_context(Store, chat_id, user_id, limit)
       IN  ret' = IF ReadRaises(data)
                  THEN Ret("get_user_context", chat_id, user_id, limit, TRUE, <<>>, <<>>)
                  ELSE Ret("get_user_context", chat_id, user_id, limit, FALSE,
                           Msgs(out), Inss(out))
    /\ UNCHANGED <<redis, ttl, nIns>>
    /\ UNCHANGED pipeVars

ClearContext(chat_id) ==
    /\ SetStore(clear_context(Store, chat_id))
    /\ ret' = Ret("clear_context", chat_id, 0, 0, FALSE, <<>>, <<>>)
    /\ UNCHANGED pipeVars

GetContextSize(chat_id) ==
    /\ ret' = Ret("get_context_size", chat_id, 0, 0, FALSE,
                  get_context_size(Store, chat_id), <<>>)
    /\ UNCHANGED <<redis, ttl, nIns>>
    /\ UNCHANGED pipeVars

TrimContext(chat_id, max_size) ==
    /\ SetStore(trim_context(Store, chat_id, max_size))
    /\ ret' = Ret("trim_context", chat_id, 0, max_size, FALSE, <<>>, <<>>)
    /\ UNCHANGED pipeVars

\* Redis is unreachable for the one command of an operation (for the first
\* of the two commands of an append): the operation raises, nothing changes.
StoreUnavailable(op) ==
    /\ ret' = Refused(op)
    /\ UNCHANGED <<redis, ttl, nIns>>
    /\ UNCHANGED pipeVars

\* Another writer pushes a string of its own onto a list of chat 1.
ForeignPush(key, data) ==
    /\ nIns < MaxIns
    /\ SetStore(LPUSH(Store, key, data))
    /\ ret' = NoRet
    /\ UNCHANGED pipeVars

\* get_chat_users(chat_id), the scan yielding `keys`.
GetChatUsers(chat_id, keys) ==
    /\ ret' = Ret("get_chat_users", chat_id, 0, 0, FALSE,
                  [keys |-> keys, user_ids |-> get_chat_users(keys)], <<>>)
    /\ UNCHANGED <<redis, ttl, nIns>>
    /\ UNCHANGED pipeVars

\* Time passes: every running time-to-live goes down by `seconds`, and
\* Redis removes the keys whose time has run out.  The observer keeps the
\* removed keys, each with the length its list had.
Elapse(seconds) ==
    /\ \E k \in Keys : ttl[k] > 0
    /\ redis' = [k \in Keys |-> IF ttl[k] > 0 /\ ttl[k] <= seconds THEN <<>> ELSE redis[k]]
    /\ ttl' = [k \in Keys |-> IF ttl[k] > seconds THEN ttl[k] - seconds ELSE 0]
    /\ ret' = [NoRet EXCEPT !.op = "elapse", !.arg = seconds,
                            !.value = {<<k, Len(redis[k])>> :
                                          k \in {x \in Keys : ttl[x] > 0 /\ ttl[x] <= seconds}}]
    /\ UNCHANGED nIns
    /\ UNCHANGED pipeVars

\* Half of the time-to-live of an append.
HalfDay == TTL_SECONDS \div 2

StoreOps == {"add_message", "add_user_message", "get_context", "get_user_context",
             "clear_context", "get_context_size", "trim_context", "get_chat_users"}

ForeignKeys == {get_context_key(1), get_user_context_key(1, 1)}

\* The operations are called on chat 1 and its participant; chat 12 is there
\* for the pipeline and stays empty here.
StoreChats == {1}

StoreNext ==
    \/ \E c \in StoreChats, m \in StoreMessages : AddMessage(c, m)
    \/ \E c \in StoreChats, u \in Users, m \in StoreMessages : AddUserMessage(c, u, m)
    \/ \E c \in StoreChats, n \in Args : GetContext(c, n)
    \/ \E c \in StoreChats, u \in Users, n \in Args : GetUserContext(c, u, n)
    \/ \E c \in StoreChats : ClearContext(c)
    \/ \E c \in StoreChats : GetContextSize(c)
    \/ \E c \in StoreChats, n \in Args : TrimContext(c, n)
    \/ \E op \in StoreOps : StoreUnavailable(op)
    \/ \E k \in ForeignKeys, d \in ForeignData : ForeignPush(k, d)
    \/ \E c \in StoreChats :
          \E keys \in Scans(Store, c, ForeignNames) : GetChatUsers(c, keys)

SpecStore == StoreOnlyInit /\ [][StoreNext]_vars

(***************************************************************************)
(* The participant histories of two chats and two users, and               *)
(* get_chat_users over them.                                               *)
(***************************************************************************)
UsersNext ==
    \/ \E c \in Chats, u \in Participants :
          AddUserMessage(c, u, ChatMessage(u, <<"a">>, <<"h", "i">>, 1, 7))
    \/ \E c \in Chats, foreign \in SUBSET ForeignNames :
          \E keys \in Scans(Store, c, foreign) : GetChatUsers(c, keys)
    \/ Elapse(HalfDay)

SpecUsers == StoreOnlyInit /\ [][UsersNext]_vars

(***************************************************************************)
(* Appends, reads, sizes and trims of chat 1 and its participant while     *)
(* time passes.                                                            *)
(***************************************************************************)
ExpiryNext ==
    \/ \E c \in StoreChats, m \in StoreMessages : AddMessage(c, m)
    \/ \E c \in StoreChats, u \in Users, m \in StoreMessages : AddUserMessage(c, u, m)
    \/ \E c \in StoreChats, n \in Args : GetContext(c, n)
    \/ \E c \in StoreChats, u \in Users, n \in Args : GetUserContext(c, u, n)
    \/ \E c \in StoreChats : GetContextSize(c)
    \/ \E c \in StoreChats, n \in Args : TrimContext(c, n)
    \/ Elapse(HalfDay)

SpecExpiry == StoreOnlyInit /\ [][ExpiryNext]_vars


(***************************************************************************)
(* Claims about the store, checked under SpecStore.                        *)
(***************************************************************************)
RetKey ==
    IF ret.op = "get_user_context"
    THEN get_user_context_key(ret.chat_id, ret.user_id)
    ELSE get_context_key(ret.chat_id)

ReadReturned == ret.op \in {"get_context", "get_user_context"} /\ ~ret.raised

SeqToSet(s) == {s[i] : i \in 1..Len(s)}

\* The stored strings of a list that are among its n most recently pushed.
Newest(list, n) ==
    {e \in SeqToSet(list) :
        Cardinality({f \in SeqToSet(list) : f.ins > e.ins}) < n}

\* C7: for every chat and every N >= 0, right after trim(chat, N) has
\* completed, size(chat) <= N.
C7_TrimBoundsSize ==
    (ret.op = "trim_context" /\ ~ret.raised)
        => get_context_size(Store, ret.chat_id) <= ret.arg

\* C9: a read, on either namespace, returns the messages oldest first in the
\* order of their insertion, whatever their timestamps are.
C9_ReadInInsertionOrder ==
    ReadReturned =>
        \A i, j \in 1..Len(ret.ins) : i < j => ret.ins[i] < ret.ins[j]

\* A read of a participant history has returned two messages that carry the
\* same timestamp.
C9_Witness ==
    /\ ret.op = "get_user_context"
    /\ ~ret.raised
    /\ Len(ret.value) = 2
    /\ ret.value[1].timestamp = ret.value[2].timestamp

\* C10: for every limit >= 0 a read returns at most limit messages, and they
\* are the well-formed ones among the limit most recently inserted entries.
C10_ReadAtMostLimitNewest ==
    ReadReturned =>
        /\ Len(ret.value) <= ret.arg
        /\ SeqToSet(ret.ins) =
              {e.ins : e \in {x \in Newest(redis[RetKey], ret.arg) :
                                  DecodeOutcome(x.data) = "ok"}}

\* C22: right after clear(chat) has completed, size(chat) = 0 and a read of
\* the chat with any limit is empty; this holds for every clear, so also for
\* the clear of an empty or already cleared chat, which succeeds.
C22_ClearEmptiesChat ==
    (ret.op = "clear_context" /\ ~ret.raised) =>
        /\ get_context_size(Store, ret.chat_id) = 0
        /\ redis[get_context_key(ret.chat_id)] = <<>>
        /\ \A limit \in Args :
              /\ ~ReadRaises(get_context_data(Store, ret.chat_id, limit))
              /\ get_context(Store, ret.chat_id, limit) = <<>>

\* A clear has completed after at least two pushes, all of which went to the
\* chat history (the participant history, which nothing empties, is empty).
C22_Witness ==
    /\ ret.op = "clear_context"
    /\ ~ret.raised
    /\ nIns >= 2
    /\ \A u \in Users : redis[get_user_context_key(ret.chat_id, u)] = <<>>

\* A read that Redis did not refuse has ended, by returning or by raising.
ReadEnded == ret.op \in {"get_context", "get_user_context"} /\ ret.chat_id # 0

\* C23: a read never aborts because of a malformed entry: it returns, and
\* what it returns are the well-formed entries of its window, malformed
\* ones skipped.
C23_ReadSkipsMalformed ==
    ReadEnded =>
        /\ ~ret.raised
        /\ SeqToSet(ret.ins) =
              {e.ins : e \in {x \in SeqToSet(LRANGE(redis, RetKey, 0, ret.arg - 1)) :
                                  DecodeOutcome(x.data) = "ok"}}

ChatKeys == {get_context_key(c) : c \in Chats}
UserKeys == {get_user_context_key(c, u) : c \in Chats, u \in Participants}

ChatOps == {"add_message", "get_context", "trim_context", "clear_context",
            "get_context_size"}
UserOps == {"add_user_message", "get_user_context", "get_chat_users"}

\* The store with the lists under the keys of K removed.
Without(S, K) ==
    [S EXCEPT !.redis = [k \in Keys |-> IF k \in K THEN <<>> ELSE @[k]],
              !.ttl = [k \in Keys |-> IF k \in K THEN 0 ELSE @[k]]]

\* What the operation that a step has performed gives on the store T: the
\* list under its key afterwards, and its result.
Outcome(T, r) ==
    LET c == r.chat_id
        u == r.user_id
        n == r.arg
    IN  CASE r.op = "add_message" ->
                [list |-> T.redis[get_context_key(c)], value |-> <<>>]
          [] r.op = "add_user_message" ->
                [list |-> T.redis[get_user_context_key(c, u)], value |-> <<>>]
          [] r.op = "get_context" ->
                [list |-> T.redis[get_context_key(c)],
                 value |-> IF ReadRaises(get_context_data(T, c, n)) THEN "raised"
                           ELSE Msgs(get_context(T, c, n))]
          [] r.op = "get_user_context" ->
                [list |-> T.redis[get_user_context_key(c, u)],
                 value |-> IF ReadRaises(get_user_context_data(T, c, u, n)) THEN "raised"
                           ELSE Msgs(get_user_context(T, c, u, n))]
          [] r.op = "trim_context" ->
                [list |-> trim_context(T, c, n).redis[get_context_key(c)], value |-> <<>>]
          [] r.op = "clear_context" ->
                [list |-> clear_context(T, c).redis[get_context_key(c)], value |-> <<>>]
          [] r.op = "get_context_size" ->
                [list |-> T.redis[get_context_key(c)], value |-> get_context_size(T, c)]
          [] OTHER -> [list |-> <<>>, value |-> <<>>]

\* C24: a chat operation changes no participant history and gives what it
\* gives on the store without the participant histories; a participant
\* operation changes no chat history and gives what it gives on the store
\* without the chat histories (the scan of get_chat_users yields no key of a
\* chat history).  So clear(chat) and trim(chat, N) leave every participant
\* history of the chat as it was.
C24_NamespacesDisjoint ==
    [][ /\ (ret'.op \in ChatOps /\ ret'.chat_id # 0) =>
              /\ \A k \in UserKeys : redis'[k] = redis[k] /\ ttl'[k] = ttl[k]
              /\ LET before == Without(Store, UserKeys)
                     after  == Without([redis |-> redis', ttl |-> ttl', nIns |-> nIns'],
                                       UserKeys)
                 IN  Outcome(IF ret'.op \in {"trim_context", "clear_context"}
                             THEN before ELSE after, ret')
                        = [list |-> redis'[get_context_key(ret'.chat_id)],
                           value |-> IF ret'.raised THEN "raised" ELSE ret'.value]
        /\ (ret'.op \in UserOps /\ ret'.chat_id # 0) =>
              /\ \A k \in ChatKeys : redis'[k] = redis[k] /\ ttl'[k] = ttl[k]
              /\ IF ret'.op = "get_chat_users"
                 THEN /\ ret'.value.keys \in
                            Scans(Without(Store, ChatKeys), ret'.chat_id, ForeignNames)
                      /\ \A k \in ChatKeys : key_text(k) \notin SeqToSet(ret'.value.keys)
                 ELSE Outcome(Without([redis |-> redis', ttl |-> ttl', nIns |-> nIns'],
                                      ChatKeys), ret')
                        = [list |-> redis'[get_user_context_key(ret'.chat_id,
                                                                ret'.user_id)],
                           value |-> IF ret'.raised THEN "raised" ELSE ret'.value]
      ]_vars

\* A clear of the chat has completed while a participant of the chat has a
\* history of two entries.
C24_Witness ==
    /\ ret.op = "clear_context"
    /\ ~ret.raised
    /\ ret.chat_id = 1
    /\ Len(redis[get_user_context_key(1, 1)]) = 2

\* C25: a completed append puts its message at the head of the list of its
\* scope and sets the time-to-live of the scope to 24 hours; a read, a size
\* and a trim leave the time-to-live of every list that exists as it is (a
\* trim that keeps nothing leaves no list); when time passes, a scope whose
\* time has run out loses its whole history and every other scope keeps its
\* whole history.
C25_AppendRefreshesExpiry ==
    [][ /\ (ret'.op \in {"add_message", "add_user_message"} /\ ~ret'.raised) =>
              LET key == IF ret'.op = "add_message" THEN get_context_key(ret'.chat_id)
                         ELSE get_user_context_key(ret'.chat_id, ret'.user_id)
              IN  /\ redis'[key] # <<>>
                  /\ Tail(redis'[key]) = redis[key]
                  /\ Head(redis'[key]).ins = nIns + 1
                  /\ \E m \in StoreMessages : Head(redis'[key]).data = Dumps(m)
                  /\ ttl'[key] = 24 * 60 * 60
                  /\ \A k \in Keys \ {key} : ttl'[k] = ttl[k]
        /\ (ret'.op \in {"get_context", "get_user_context", "get_context_size"}) =>
              ttl' = ttl
        /\ ret'.op = "trim_context" =>
              \A k \in Keys : redis'[k] # <<>> => ttl'[k] = ttl[k]
        /\ ret'.op = "elapse" =>
              \A k \in Keys :
                  redis'[k] = IF ttl[k] > 0 /\ ttl[k] <= ret'.arg THEN <<>> ELSE redis[k]
      ]_vars

\* Time has run out for a chat history of two entries, and nothing of it is
\* left.
C25_Witness ==
    /\ ret.op = "elapse"
    /\ <<get_context_key(1), 2>> \in ret.value
    /\ redis[get_context_key(1)] = <<>>

\* How often the user u is in the list user_ids.
Count(user_ids, u) == Cardinality({i \in 1..Len(user_ids) : user_ids[i] = u})

\* C26: get_chat_users(chat) returns, and its result holds each user that
\* has a participant history under the chat exactly once and nothing else,
\* whatever keys of another writer match the pattern and also when the scan
\* yields a key more than once.
C26_EachParticipantOnce ==
    (ret.op = "get_chat_users" /\ ret.chat_id # 0) =>
        /\ ~ret.raised
        /\ \A i \in 1..Len(ret.value.user_ids) : ret.value.user_ids[i] \in Participants
        /\ \A u \in Participants :
              Count(ret.value.user_ids, u) =
                  IF redis[get_user_context_key(ret.chat_id, u)] # <<>> THEN 1 ELSE 0

\* The entry of a list that the push number n stored.
EntryOf(list, n) == CHOOSE e \in SeqToSet(list) : e.ins = n

RefusedCall == ret.op \in StoreOps /\ ret.chat_id = 0

TrimStep == ret'.op = "trim_context" /\ ~ret'.raised

\* C11: trim(chat, N) retains exactly the min(N, size) most recently inserted
\* entries of the chat history, in their order, and discards the older ones;
\* a read after the trim returns what a read of the newest min(N, size)
\* entries returned before it.
C11_TrimRetainsNewest ==
    [][TrimStep =>
          LET key    == get_context_key(ret'.chat_id)
              before == [redis |-> redis, ttl |-> ttl, nIns |-> nIns]
              after  == [redis |-> redis', ttl |-> ttl', nIns |-> nIns']
              n      == Min(ret'.arg, Len(redis[key]))
          IN  /\ redis'[key] = SubSeq(redis[key], 1, n)
              /\ SeqToSet(redis'[key]) = Newest(redis[key], n)
              /\ \A limit \in Args :
                    (limit >= n /\ limit >= 1) =>
                        get_context(after, ret'.chat_id, limit) =
                            IF n = 0 THEN <<>>
                            ELSE get_context(before, ret'.chat_id, n)
      ]_vars


(***************************************************************************)
(* generate_response, step by step.  A request is suspended at each await: *)
(* at the primary call ("primary") and, after that call raised and a       *)
(* fallback client exists, at the fallback call ("fallback").  `calls`     *)
(* records each backend call with the model it named and what came back.   *)
(***************************************************************************)
Call(backend, model, outcome) == [backend |-> backend, model |-> model, outcome |-> outcome]

\* What a backend may answer: content None, empty or a text; usage reported
\* or not; or an exception.
Contents == {None, <<>>, <<"y", "e", "s">>}
Usages == {NoTokens, 10}
Errors == {<<"API Error">>, <<"timeout">>}
Outcomes ==
    {Completion(c, u) : c \in Contents, u \in Usages} \cup {Failure(e) : e \in Errors}

\* Where a request goes once generate_response has returned: back to the
\* direct caller, or on to the delivery of the pipeline.
AfterReturn(caller) == IF caller = "direct" THEN "returned" ELSE "send"

\* A direct call of generate_response, up to its first await.
GenerateResponse(p, context, current_message, mentioned_username, user_context) ==
    /\ proc[p].pc = "idle"
    /\ proc' = [proc EXCEPT ![p] =
          [IdleProc EXCEPT
              !.pc = "primary",
              !.caller = "direct",
              !.text = current_message,
              !.args = Arguments(context, mentioned_username, user_context),
              !.messages = request_messages(service, context, current_message,
                                            mentioned_username, user_context)]]
    /\ UNCHANGED <<settings, service, sent, nUpdates, faulted>>
    /\ UNCHANGED storeVars

\* The primary client's create() returns or raises.
PrimaryReturns(p, outcome) ==
    /\ proc[p].pc = "primary"
    /\ LET st == primary_step(service, outcome)
       IN  proc' = [proc EXCEPT ![p] =
              [@ EXCEPT
                  !.calls = Append(@, Call("primary", service.model, outcome)),
                  !.pc = IF st.pc = "return" THEN AfterReturn(proc[p].caller) ELSE st.pc,
                  !.response = st.response]]
    /\ UNCHANGED <<settings, service, sent, nUpdates, faulted>>
    /\ UNCHANGED storeVars

\* The fallback client's create() returns or raises.
FallbackReturns(p, outcome) ==
    /\ proc[p].pc = "fallback"
    /\ LET st == fallback_step(service, outcome)
       IN  proc' = [proc EXCEPT ![p] =
              [@ EXCEPT
                  !.calls = Append(@, Call("fallback", service.fallback_model, outcome)),
                  !.pc = IF st.pc = "return" THEN AfterReturn(proc[p].caller) ELSE st.pc,
                  !.response = st.response]]
    /\ UNCHANGED <<settings, service, sent, nUpdates, faulted>>
    /\ UNCHANGED storeVars

\* The arguments of the direct calls.
msgUser == ChatMessage(1, <<"a">>, <<"h", "i">>, 1, 7)
msgAnon == ChatMessage(2, None, <<"y", "o">>, 2, 8)
msgBot == ChatMessage(9, <<"b", "o", "t">>, <<"o", "k">>, 3, 0)
\* A reply as the pipeline stores it when BOT_USERNAME is "@Bot".
msgAtBot == ChatMessage(9, <<"@", "B", "o", "t">>, <<"o", "k">>, 3, 0)

AIContexts ==
    {<<>>, <<msgUser>>, <<msgUser, msgBot>>, <<msgBot, msgAnon>>, <<msgUser, msgAtBot>>}
AICurrent == {<<"h", "i">>, <<"y", "o">>}
AIBotNames == {None, <<"b", "o", "t">>, <<"@", "B", "o", "t">>}
AIUserContexts == {Absent, Some(<<>>), Some(<<msgUser>>), Some(<<msgAnon, msgUser>>)}

\* The service as the tests build it: without a fallback configuration
\* (the ai_service fixture) or with one.
AIInit ==
    /\ StoreInit
    /\ settings = mock_settings
    /\ service \in {AIService(mock_settings.ai, mock_settings.bot, None),
                    AIService(mock_settings.ai, mock_settings.bot, FALLBACK_MODEL)}
    /\ proc = [p \in Procs |-> IdleProc]
    /\ sent = <<>>
    /\ nUpdates = 0
    /\ faulted = FALSE

AINext ==
    \/ \E context \in AIContexts, current_message \in AICurrent,
          mentioned_username \in AIBotNames, user_context \in AIUserContexts :
          GenerateResponse(1, context, current_message, mentioned_username, user_context)
    \/ \E outcome \in Outcomes : PrimaryReturns(1, outcome)
    \/ \E outcome \in Outcomes : FallbackReturns(1, outcome)

SpecAI == AIInit /\ [][AINext]_vars

\* Every backend call that was made returns or raises: the awaited create()
\* of the primary client and of the fallback client come back.
AIFairness ==
    /\ WF_vars(\E outcome \in Outcomes : PrimaryReturns(1, outcome))
    /\ WF_vars(\E outcome \in Outcomes : FallbackReturns(1, outcome))

SpecAILive == AIInit /\ [][AINext]_vars /\ AIFairness

(***************************************************************************)
(* should_respond_to_message called directly: for a service with any of a  *)
(* few trigger-word lists, on any of a few message texts and bot names.    *)
(* The observer keeps the arguments and the result of the last call.       *)
(***************************************************************************)
Decision(message, bot_username, result) ==
    [message |-> message, bot_username |-> bot_username, result |-> result]

ShouldRespond(message, bot_username) ==
    /\ ret' = Ret("should_respond_to_message", 0, 0, 0, FALSE,
                  Decision(message, bot_username,
                           should_respond_to_message(service, message, bot_username)),
                  <<>>)
    /\ UNCHANGED <<redis, ttl, nIns>>
    /\ UNCHANGED pipeVars

\* Trigger-word lists as get_settings() makes them: words stripped, no empty
\* word; the list may be empty.
RespondTriggerLists ==
    {{}, {<<"B", "o", "t">>}, {<<"h", "e", "l", "p">>},
     {<<"B", "o", "t">>, <<"h", "e", "l", "p">>}}

RespondTexts ==
    {<<>>, <<"h", "i">>, <<"b", "o", "t">>, <<"h", "i", " ", "B", "O", "T">>,
     <<"@", "b", "o", "t", " ", "h", "i">>, <<"h", "e", "l", "p">>}

RespondBotNames ==
    {None, <<>>, <<"b", "o", "t">>, <<"@", "B", "o", "t">>, <<"t", "e", "s", "t", "_", "b", "o", "t">>}

RespondInit ==
    /\ StoreInit
    /\ settings = mock_settings
    /\ service \in {AIService(mock_settings.ai,
                              BotConfig(mock_settings.bot.base_prompt,
                                        mock_settings.bot.context_window_size, words),
                              None) : words \in RespondTriggerLists}
    /\ proc = [p \in Procs |-> IdleProc]
    /\ sent = <<>>
    /\ nUpdates = 0
    /\ faulted = FALSE

RespondNext ==
    \E message \in RespondTexts, bot_username \in RespondBotNames :
        ShouldRespond(message, bot_username)

SpecRespond == RespondInit /\ [][RespondNext]_vars


(***************************************************************************)
(* MessageHandler (message_handler.py).  The store calls are synchronous,  *)
(* so a pipeline runs without interruption from one await to the next:     *)
(* from the dispatch of the update to the primary backend call, from there *)
(* (through the fallback call, if any) to send_message, and from there to  *)
(* its end.  Any single store call may find Redis unreachable, and any     *)
(* delivery may fail.                                                      *)
(***************************************************************************)
APOLOGY == <<"Izvinite, proizoshla oshibka pri obrabotke vashego soobshcheniya.">>
CLEARED == <<"Kontekst chata ochishchen! Nachinaem s chistogo lista.">>

\* context.bot.id
BotId == 9
\* The limit of get_user_context in _generate_and_send_response.
UserContextLimit == 20

\* MessageHandler.__init__: the service is built from settings.ai and
\* settings.bot; no fallback configuration is passed.
MessageHandlerService(stg) == AIService(stg.ai, stg.bot, None)

Update(chat_id, user_id, username, text, message_id) ==
    [chat_id |-> chat_id, user_id |-> user_id, username |-> username,
     text |-> text, message_id |-> message_id]

Delivery(p, chat_id, text) == [p |-> p, chat_id |-> chat_id, text |-> text]

\* The deliveries of the other pipelines: p starts a new run.
Others(p) == SelectSeq(sent, LAMBDA d : d.p # p)

\* The mutant of inbound_store that leaves out the trim.
inbound_store_no_trim(S, chat_id, user_id, chat_message, window, fault) ==
    LET S1 == add_message(S, chat_id, chat_message)
        S2 == add_user_message(S1, chat_id, user_id, chat_message)
    IN  CASE fault = "add_message"      -> [S |-> S, escaped |-> TRUE]
          [] fault = "add_user_message" -> [S |-> S1, escaped |-> TRUE]
          [] fault = "trim_context"     -> [S |-> S2, escaped |-> TRUE]
          [] OTHER                      -> [S |-> S2, escaped |-> FALSE]

\* The mutant of inbound_store that leaves out the participant append.
inbound_store_chat_only(S, chat_id, user_id, chat_message, window, fault) ==
    LET S1 == add_message(S, chat_id, chat_message)
        S3 == trim_context(S1, chat_id, window)
    IN  CASE fault = "add_message"      -> [S |-> S, escaped |-> TRUE]
          [] fault = "add_user_message" -> [S |-> S1, escaped |-> TRUE]
          [] fault = "trim_context"     -> [S |-> S1, escaped |-> TRUE]
          [] OTHER                      -> [S |-> S3, escaped |-> FALSE]

\* handle_message, lines 58-67: the two appends of the inbound message and
\* the trim of the chat history.  The store call named by `fault` raises,
\* and the exception leaves handle_message.
inbound_store(S, chat_id, user_id, chat_message, window, fault) ==
    LET S1 == add_message(S, chat_id, chat_message)
        S2 == add_user_message(S1, chat_id, user_id, chat_message)
        S3 == trim_context(S2, chat_id, window)
    IN  CASE fault = "add_message"      -> [S |-> S, escaped |-> TRUE]
          [] fault = "add_user_message" -> [S |-> S1, escaped |-> TRUE]
          [] fault = "trim_context"     -> [S |-> S2, escaped |-> TRUE]
          [] OTHER                      -> [S |-> S3, escaped |-> FALSE]

\* _generate_and_send_response, lines 96-112: the two reads and the start of
\* generate_response.  A read that raises is caught by the except clause,
\* which sends the apology.
read_and_request(S, svc, stg, chat_id, user_id, message_text, fault) ==
    LET window == stg.bot.context_window_size
        chat_data == get_context_data(S, chat_id, window)
        user_data == get_user_context_data(S, chat_id, user_id, UserContextLimit)
        chat_context == Msgs(get_context(S, chat_id, window))
        user_context == Msgs(get_user_context(S, chat_id, user_id, UserContextLimit))
    IN  IF \/ fault = "get_context" \/ ReadRaises(chat_data)
           \/ fault = "get_user_context" \/ ReadRaises(user_data)
        THEN [pc |-> "apology", args |-> NoArguments, messages |-> <<>>]
        ELSE [pc |-> "primary",
              args |-> Arguments(chat_context, stg.telegram.bot_username,
                                 Some(user_context)),
              messages |-> request_messages(svc, chat_context, message_text,
                                            stg.telegram.bot_username,
                                            Some(user_context))]

\* The mutant of reply_store that leaves out the participant append.
reply_store_chat_only(S, stg, chat_id, user_id, content, now, fault) ==
    LET bot_message == ChatMessage(BotId, stg.telegram.bot_username, content, now, 0)
        S1 == add_message(S, chat_id, bot_message)
    IN  CASE fault = "add_message"      -> [S |-> S, raised |-> TRUE]
          [] fault = "add_user_message" -> [S |-> S1, raised |-> TRUE]
          [] OTHER                      -> [S |-> S1, raised |-> FALSE]

\* The mutant of reply_store that appends the reply to the histories of
\* chat 1, whatever chat the message came from.
reply_store_first_chat(S, stg, chat_id, user_id, content, now, fault) ==
    LET bot_message == ChatMessage(BotId, stg.telegram.bot_username, content, now, 0)
        S1 == add_message(S, 1, bot_message)
        S2 == add_user_message(S1, 1, user_id, bot_message)
    IN  CASE fault = "add_message"      -> [S |-> S, raised |-> TRUE]
          [] fault = "add_user_message" -> [S |-> S1, raised |-> TRUE]
          [] OTHER                      -> [S |-> S2, raised |-> FALSE]

\* _generate_and_send_response, lines 119-131: the bot's reply is appended to
\* the chat history and to the participant history.
reply_store(S, stg, chat_id, user_id, content, now, fault) ==
    LET bot_message == ChatMessage(BotId, stg.telegram.bot_username, content, now, 0)
        S1 == add_message(S, chat_id, bot_message)
        S2 == add_user_message(S1, chat_id, user_id, bot_message)
    IN  CASE fault = "add_message"      -> [S |-> S, raised |-> TRUE]
          [] fault = "add_user_message" -> [S |-> S1, raised |-> TRUE]
          [] OTHER                      -> [S |-> S2, raised |-> FALSE]

InboundFaults == {"none", "add_message", "add_user_message", "trim_context",
                  "get_context", "get_user_context"}
ReplyFaults == {"none", "add_message", "add_user_message"}

\* handle_message up to its first await (or to its end).
HandleMessage(p, update, now, fault) ==
    /\ proc[p].pc \in {"idle", "done"}
    /\ update.text # <<>>
    /\ LET chat_message == ChatMessage(update.user_id, update.username, update.text,
                                       now, update.message_id)
           stored == inbound_store(Store, update.chat_id, update.user_id, chat_message,
                                   settings.bot.context_window_size, fault)
           should_respond == should_respond_to_message(service, update.text,
                                                       settings.telegram.bot_username)
           next == read_and_request(stored.S, service, settings, update.chat_id,
                                    update.user_id, update.text, fault)
           run == [IdleProc EXCEPT !.caller = "handler", !.chat_id = update.chat_id,
                                   !.user_id = update.user_id, !.text = update.text,
                                   !.failures = IF fault = "none" THEN 0 ELSE 1,
                                   !.fault = fault]
       IN  /\ fault \in {"get_context", "get_user_context"} => should_respond
           /\ SetStore(stored.S)
           /\ proc' = [proc EXCEPT ![p] =
                 IF stored.escaped
                 THEN [run EXCEPT !.pc = "done", !.escaped = TRUE]
                 ELSE IF ~should_respond
                 THEN [run EXCEPT !.pc = "done", !.should_respond = "false"]
                 ELSE [run EXCEPT !.pc = next.pc, !.should_respond = "true",
                                  !.args = next.args, !.messages = next.messages]]
    /\ sent' = Others(p)
    /\ nUpdates' = nUpdates + 1
    /\ faulted' = (faulted \/ fault # "none")
    /\ ret' = [NoRet EXCEPT !.op = "handle_message", !.chat_id = update.chat_id]
    /\ UNCHANGED <<settings, service>>

\* The mutant of SendReturns that stores the reply whether or not the
\* delivery succeeded.
SendReturns_store_always(p, delivered, now, fault) ==
    /\ proc[p].pc = "send"
    /\ fault # "none" => delivered
    /\ LET stored == reply_store(Store, settings, proc[p].chat_id, proc[p].user_id,
                                 proc[p].response.content, now, fault)
       IN  /\ SetStore(stored.S)
           /\ IF delivered
              THEN /\ sent' = Append(sent, Delivery(p, proc[p].chat_id,
                                                    proc[p].response.content))
                   /\ proc' = [proc EXCEPT
                                  ![p].pc = IF stored.raised THEN "apology" ELSE "done",
                                  ![p].failures = IF stored.raised THEN @ + 1 ELSE @]
              ELSE /\ proc' = [proc EXCEPT ![p].pc = "apology", ![p].failures = @ + 1]
                   /\ UNCHANGED sent
    /\ faulted' = (faulted \/ ~delivered \/ fault # "none")
    /\ ret' = [NoRet EXCEPT !.op = "send_message", !.chat_id = proc[p].chat_id]
    /\ UNCHANGED <<settings, service, nUpdates>>

\* send_message(text=ai_response.content) returns or raises; after a
\* delivery the reply is stored.  An exception of the delivery or of a store
\* call is caught by the except clause, which sends the apology.
SendReturns(p, delivered, now, fault) ==
    /\ proc[p].pc = "send"
    /\ fault # "none" => delivered
    /\ LET stored == reply_store(Store, settings, proc[p].chat_id, proc[p].user_id,
                                 proc[p].response.content, now, fault)
       IN  IF delivered
           THEN /\ sent' = Append(sent, Delivery(p, proc[p].chat_id,
                                                 proc[p].response.content))
                /\ SetStore(stored.S)
                /\ proc' = [proc EXCEPT
                               ![p].pc = IF stored.raised THEN "apology" ELSE "done",
                               ![p].failures = IF stored.raised THEN @ + 1 ELSE @]
           ELSE /\ proc' = [proc EXCEPT ![p].pc = "apology", ![p].failures = @ + 1]
                /\ UNCHANGED <<redis, ttl, nIns, sent>>
    /\ faulted' = (faulted \/ ~delivered \/ fault # "none")
    /\ ret' = [NoRet EXCEPT !.op = "send_message", !.chat_id = proc[p].chat_id]
    /\ UNCHANGED <<settings, service, nUpdates>>

\* send_message(text=apology) returns, or raises out of the handler.
ApologyReturns(p, delivered) ==
    /\ proc[p].pc = "apology"
    /\ sent' = IF delivered THEN Append(sent, Delivery(p, proc[p].chat_id, APOLOGY))
               ELSE sent
    /\ proc' = [proc EXCEPT ![p].pc = "done", ![p].escaped = ~delivered,
                            ![p].failures = IF delivered THEN @ ELSE @ + 1]
    /\ faulted' = (faulted \/ ~delivered)
    /\ UNCHANGED <<settings, service, nUpdates>>
    /\ UNCHANGED storeVars

\* handle_clear_command: the chat history is deleted and the reply sent; a
\* refused delete raises out of the handler.
ClearCommand(p, chat_id, refused) ==
    /\ proc[p].pc \in {"idle", "done"}
    /\ SetStore(IF refused THEN Store ELSE clear_context(Store, chat_id))
    /\ proc' = [proc EXCEPT ![p] =
          [IdleProc EXCEPT !.pc = "done", !.caller = "clear", !.chat_id = chat_id,
                           !.failures = IF refused THEN 1 ELSE 0,
                           !.escaped = refused]]
    /\ sent' = IF refused THEN Others(p)
               ELSE Append(Others(p), Delivery(p, chat_id, CLEARED))
    /\ nUpdates' = nUpdates + 1
    /\ faulted' = (faulted \/ refused)
    /\ ret' = [NoRet EXCEPT !.op = "clear_command", !.chat_id = chat_id]
    /\ UNCHANGED <<settings, service>>

(***************************************************************************)
(* The bot: settings as the environment gives them, one update handled at  *)
(* a time (the Application is built without concurrent updates).           *)
(***************************************************************************)
\* The number of updates dispatched in one behaviour.
MaxUpdates == 2

BotUsernames == {None, <<"b", "o", "t">>, <<"@", "B", "o", "t">>}
FallbackConfigs == {None, FALLBACK_MODEL}
WindowSizes == {1, 2}
TriggerWords == {<<"b", "o", "t">>}
UpdateTexts == {<<"h", "i">>, <<"b", "o", "t">>}
Clock == {1}

\* What the backend answers to a pipeline's request.
PipeOutcomes ==
    {Completion(<<"y", "e", "s">>, 10), Completion(None, NoTokens),
     Failure(<<"API Error">>)}

\* get_settings() and TelegramBot.__init__.
Init ==
    /\ StoreInit
    /\ settings \in {Settings(b, f, BotConfig(BASE_PROMPT, w, TriggerWords)) :
                        b \in BotUsernames, f \in FallbackConfigs, w \in WindowSizes}
    /\ service = MessageHandlerService(settings)
    /\ proc = [p \in Procs |-> IdleProc]
    /\ sent = <<>>
    /\ nUpdates = 0
    /\ faulted = FALSE

\* FallbackReturns is no step of the bot: the handler's service has no
\* fallback client, so no pipeline is ever suspended at a fallback call
\* (NoPipelineAtFallback).
Next ==
    \/ \E c \in Chats, u \in Users, text \in UpdateTexts, now \in Clock,
          fault \in InboundFaults :
          /\ nUpdates < MaxUpdates
          /\ HandleMessage(1, Update(c, u, <<"a">>, text, nUpdates + 1), now, fault)
    \/ \E outcome \in PipeOutcomes : PrimaryReturns(1, outcome)
    \/ \E delivered \in BOOLEAN, now \in Clock, fault \in ReplyFaults :
          SendReturns(1, delivered, now, fault)
    \/ \E delivered \in BOOLEAN : ApologyReturns(1, delivered)
    \/ \E c \in Chats, refused \in BOOLEAN :
          /\ nUpdates < MaxUpdates
          /\ ClearCommand(1, c, refused)

Spec == Init /\ [][Next]_vars

NoPipelineAtFallback == \A p \in Procs : proc[p].pc # "fallback"

(***************************************************************************)
(* Two pipelines of one MessageHandler that run as concurrent coroutines:  *)
(* each is suspended at its awaits, where the other one may take steps.    *)
(***************************************************************************)
InterleavedInit ==
    /\ StoreInit
    /\ settings = Settings(<<"b", "o", "t">>, None, BotConfig(BASE_PROMPT, 1, TriggerWords))
    /\ service = MessageHandlerService(settings)
    /\ proc = [p \in Procs |-> IdleProc]
    /\ sent = <<>>
    /\ nUpdates = 0
    /\ faulted = FALSE

\* The store call that Redis refuses in a step: none, or the participant
\* append, which leaves the chat append done.
InterleavedFaults == {"none", "add_user_message"}

\* The backend answers, or fails.
InterleavedOutcomes == {Completion(<<"y", "e", "s">>, 10), Failure(<<"API Error">>)}

\* Who writes in a chat: two senders in chat 1, one in chat 12.
Senders(c) == IF c = 1 THEN Participants ELSE Users

InterleavedNext ==
    \/ \E p \in Procs, c \in Chats, text \in UpdateTexts, now \in Clock,
          fault \in InterleavedFaults : \E u \in Senders(c) :
          /\ nUpdates < MaxUpdates
          /\ HandleMessage(p, Update(c, u, <<"a">>, text, nUpdates + 1), now, fault)
    \/ \E p \in Procs, outcome \in InterleavedOutcomes : PrimaryReturns(p, outcome)
    \/ \E p \in Procs, delivered \in BOOLEAN, now \in Clock, fault \in InterleavedFaults :
          SendReturns(p, delivered, now, fault)
    \/ \E p \in Procs, delivered \in BOOLEAN : ApologyReturns(p, delivered)
    \/ \E p \in Procs, c \in Chats, refused \in BOOLEAN :
          /\ nUpdates < MaxUpdates
          /\ ClearCommand(p, c, refused)

SpecInterleaved == InterleavedInit /\ [][InterleavedNext]_vars

(***************************************************************************)
(* Claims about generate_response, checked under SpecAI.                   *)
(***************************************************************************)
\* The number of attempts per backend that the tests expect.
RetryBudget == 3

req == proc[1]

Returned == req.pc = "returned"

CallsTo(backend) == SelectSeq(req.calls, LAMBDA c : c.backend = backend)

AllFailed(calls) == \A i \in 1..Len(calls) : ~calls[i].outcome.ok

\* The primary failed on every attempt and the fallback answered at its
\* first attempt.
FailedOver ==
    /\ Returned
    /\ service.fallback_client
    /\ CallsTo("primary") # <<>>
    /\ AllFailed(CallsTo("primary"))
    /\ CallsTo("fallback") # <<>>
    /\ CallsTo("fallback")[1].outcome.ok

\* C1, as stated: after a failover to a fallback that answers at once, the
\* result's content is the fallback's response content and model_used is the
\* fallback's model id.
C1_FailoverContentIsFallbackContent ==
    FailedOver =>
        /\ req.response.content = CallsTo("fallback")[1].outcome.content
        /\ req.response.model_used = service.fallback_model

\* C1, amended: the content is the fallback's response content, or the fixed
\* 'cannot answer' text when that content is None or empty; model_used is
\* the fallback's model id.
C1_FailoverResult ==
    FailedOver =>
        LET content == CallsTo("fallback")[1].outcome.content
        IN  /\ req.response.content =
                  IF content = None \/ content = <<>> THEN CANNOT_ANSWER ELSE content
            /\ req.response.model_used = service.fallback_model
            /\ req.response.model_used # service.model

\* A failover has returned the fallback's non-empty text.
C1_Witness ==
    /\ FailedOver
    /\ req.response.content = <<"y", "e", "s">>

\* C2: a backend that raises on every attempt is called exactly RetryBudget
\* times in one request: the primary RetryBudget times before the first call
\* of the fallback, and a fallback that always fails RetryBudget times before
\* the request ends in the failure payload.
C2_RetryBudgetPerBackend ==
    (Returned /\ service.fallback_client /\ AllFailed(req.calls)) =>
        /\ Len(CallsTo("primary")) = RetryBudget
        /\ Len(CallsTo("fallback")) = RetryBudget
        /\ \A i \in 1..RetryBudget : req.calls[i].backend = "primary"
        /\ IsSubstring(ERROR_MARKER, req.response.content)

\* C3: when the primary and the configured fallback both fail, the request
\* does not raise; it returns a result whose content holds the failure
\* marker and the text of the last error, the fallback's.
C3_BothFailReturnsPayload ==
    (/\ req.calls # <<>>
     /\ req.calls[Len(req.calls)].backend = "fallback"
     /\ ~req.calls[Len(req.calls)].outcome.ok) =>
        /\ Returned
        /\ IsSubstring(ERROR_MARKER, req.response.content)
        /\ IsSubstring(req.calls[Len(req.calls)].outcome.error, req.response.content)
        /\ req.response.content =
              ERROR_MARKER \o req.calls[Len(req.calls)].outcome.error

\* Both backends have failed, each with an error text of its own.
C3_Witness ==
    /\ Returned
    /\ Len(req.calls) = 2
    /\ AllFailed(req.calls)
    /\ req.calls[1].outcome.error # req.calls[2].outcome.error
    /\ ~IsSubstring(req.calls[1].outcome.error, req.response.content)

\* C4: without a fallback, a failure of the primary ends the request with no
\* fallback call: it returns a result whose content embeds the primary's
\* error text, with no model_used and no tokens_used.
C4_NoFallbackSurfacesPrimaryError ==
    (/\ ~service.fallback_client
     /\ req.calls # <<>>
     /\ ~req.calls[1].outcome.ok) =>
        /\ Returned
        /\ CallsTo("fallback") = <<>>
        /\ Len(req.calls) = 1
        /\ IsSubstring(req.calls[1].outcome.error, req.response.content)
        /\ req.response.model_used = None
        /\ req.response.tokens_used = NoTokens

\* The primary has failed in a service that has no fallback.
C4_Witness ==
    /\ ~service.fallback_client
    /\ Returned
    /\ req.calls # <<>>
    /\ ~req.calls[1].outcome.ok

\* C5: the first backend call of a request is to the primary; the fallback
\* is called only right after a failed primary call and only if a fallback
\* is configured; after a successful call no further call is made, so a
\* primary success is the only call of its request.
C5_CallOrder ==
    /\ req.calls # <<>> => req.calls[1].backend = "primary"
    /\ \A i \in 1..Len(req.calls) :
          req.calls[i].backend = "fallback" =>
              /\ service.fallback_client
              /\ i > 1
              /\ req.calls[i - 1].backend = "primary"
              /\ ~req.calls[i - 1].outcome.ok
    /\ \A i \in 1..Len(req.calls) :
          req.calls[i].outcome.ok => (i = Len(req.calls) /\ Returned)
    /\ req.pc = "primary" => req.calls = <<>>
    /\ req.pc = "fallback" => (req.calls # <<>> /\ AllFailed(req.calls))

\* The primary has answered in a service that has a fallback.
C5_Witness ==
    /\ service.fallback_client
    /\ Returned
    /\ Len(req.calls) = 1
    /\ req.calls[1].outcome.ok

\* A request of a direct call has been assembled.
Assembled == req.caller = "direct" /\ req.pc # "idle"

LastTurn == req.messages[Len(req.messages)]

\* C12: for a non-empty current message, the turns that generate_response
\* sends end with a user turn whose content contains the current message.
C12_EndsWithUserTurnOfCurrent ==
    (Assembled /\ req.text # <<>>) =>
        /\ LastTurn.role = "user"
        /\ IsSubstring(req.text, LastTurn.content)

\* A display name lower-cased and with its leading '@' stripped.
Normalized(name) == LStrip(Lower(name), "@")

\* C13: a chat-history message is emitted as an assistant turn with its raw
\* body iff its display name, lower-cased and with a leading '@' stripped,
\* equals the bot name treated the same way; every other message is emitted
\* as a user turn whose body is prefixed by '<display name>: ', with
\* 'user_<author id>' for an absent display name.
C13_TurnOfHistoryMessage ==
    Assembled =>
        \A i \in 1..Len(req.args.context) :
            LET msg  == req.args.context[i]
                bot  == req.args.mentioned_username
                turn == req.messages[i + 1]
                name == IF Truthy(msg.username) THEN msg.username
                        ELSE <<"u", "s", "e", "r", "_">> \o Str(msg.user_id)
            IN  IF /\ Truthy(bot)
                   /\ Truthy(msg.username)
                   /\ Normalized(msg.username) = Normalized(bot)
                THEN turn = Turn("assistant", msg.message)
                ELSE turn = Turn("user", name \o <<":", " ">> \o msg.message)

IsSuffix(a, b) == Len(a) <= Len(b) /\ SubSeq(b, Len(b) - Len(a) + 1, Len(b)) = a

\* C14: the turns are one system turn, in first position, then one turn per
\* chat-history message in the order of the history, then one more user turn
\* holding the raw current message iff the content of the last turn emitted
\* so far does not contain the current message.
C14_TurnSequenceShape ==
    Assembled =>
        LET context == req.args.context
            n       == Len(context)
            m       == Len(req.messages)
        IN  /\ m \in {n + 1, n + 2}
            /\ req.messages[1].role = "system"
            /\ \A i \in 2..m : req.messages[i].role # "system"
            /\ \A i \in 1..n : IsSuffix(context[i].message, req.messages[i + 1].content)
            /\ (m = n + 2) <=> ~IsSubstring(req.text, req.messages[n + 1].content)
            /\ (m = n + 2) => req.messages[m] = Turn("user", req.text)

\* A history of two messages with different bodies has been assembled, and
\* the current message, contained in the last of them, was not appended.
C14_Witness ==
    /\ Assembled
    /\ Len(req.args.context) = 2
    /\ req.args.context[1].message # req.args.context[2].message
    /\ Len(req.messages) = 3

RECURSIVE UserHistoryBlock(_)
\* The lines '<display name, or User>: <body>' of a participant history.
UserHistoryBlock(list) ==
    LET line == (IF list[1].username = None \/ list[1].username = <<>>
                 THEN <<"U", "s", "e", "r">> ELSE list[1].username)
                    \o <<":", " ">> \o list[1].message
    IN  IF Len(list) = 1 THEN line
        ELSE line \o <<"\n">> \o UserHistoryBlock(Tail(list))

\* C15: the system turn has a 'Relevant user history' block iff a participant
\* history is supplied and non-empty; the block has one line
\* '<display name, or User>: <body>' per message, in the order supplied; the
\* participant history adds no turn.
C15_UserHistoryBlock ==
    Assembled =>
        LET user_context == req.args.user_context
            system       == req.messages[1].content
            base         == service.base_prompt \o NO_USERNAME_INSTRUCTION
            supplied     == user_context.some /\ user_context.list # <<>>
        IN  /\ IsSubstring(USER_HISTORY_HEADER, system) <=> supplied
            /\ supplied =>
                  system = base \o USER_HISTORY_HEADER \o UserHistoryBlock(user_context.list)
            /\ ~supplied => system = base
            /\ Len(req.messages) <= Len(req.args.context) + 2
            /\ \A i \in 2..Len(req.messages) :
                  ~IsSubstring(USER_HISTORY_HEADER, req.messages[i].content)

\* A participant history of two messages, the first without a display name,
\* has been rendered.
C15_Witness ==
    /\ Assembled
    /\ req.args.user_context.some
    /\ Len(req.args.user_context.list) = 2
    /\ req.args.user_context.list[1].username = None
    /\ IsSubstring(<<"U", "s", "e", "r", ":", " ">>, req.messages[1].content)


\* C31: a call of generate_response makes at most 3 calls to the primary
\* backend and at most 3 to the fallback backend, and, every backend call
\* coming back, it returns a result.
C31_GenerateResponseTerminates ==
    /\ [](/\ Len(CallsTo("primary")) <= 3
          /\ Len(CallsTo("fallback")) <= 3)
    /\ (req.pc = "primary") ~> (Returned /\ req.response # NoResponse)

\* A call has returned after its primary call and its fallback call both
\* raised, each made once.
C31_Witness ==
    /\ Returned
    /\ Len(CallsTo("primary")) = 1
    /\ Len(CallsTo("fallback")) = 1
    /\ AllFailed(req.calls)
    /\ req.response.tokens_used = NoTokens

\* The call that ended the request.
LastCall == req.calls[Len(req.calls)]

\* C28: when the backend called last has answered, the result's content is
\* the answer's text, or the fixed 'cannot answer' text when that is None or
\* empty; tokens_used is the total token count of the answer, or None when
\* the answer carries no usage; model_used is the configured model id of the
\* backend that answered.
C28_SuccessResult ==
    (Returned /\ LastCall.outcome.ok) =>
        /\ req.response.content =
              IF LastCall.outcome.content = None \/ LastCall.outcome.content = <<>>
              THEN CANNOT_ANSWER ELSE LastCall.outcome.content
        /\ req.response.tokens_used = LastCall.outcome.usage
        /\ req.response.model_used =
              IF LastCall.backend = "primary" THEN PRIMARY_MODEL ELSE FALLBACK_MODEL

\* The fallback has answered, with an empty text and without usage.
C28_Witness ==
    /\ Returned
    /\ LastCall.backend = "fallback"
    /\ LastCall.outcome = Completion(<<>>, NoTokens)
    /\ req.response.tokens_used = NoTokens

(***************************************************************************)
(* Claims about should_respond_to_message, checked under SpecRespond.      *)
(***************************************************************************)
Decided == ret.op = "should_respond_to_message"

\* C16: should_respond(message, bot_name) is true iff (a) bot_name is
\* non-empty and, lower-cased and with its leading '@' stripped, is a
\* substring of the lower-cased message, or (b) some trigger word,
\* lower-cased, is a substring of the lower-cased message.
C16_RespondIffNameOrTrigger ==
    Decided =>
        LET message_lower == Lower(ret.value.message)
            bot_name      == ret.value.bot_username
        IN  ret.value.result <=>
                \/ Truthy(bot_name) /\ IsSubstring(Normalized(bot_name), message_lower)
                \/ \E word \in service.trigger_words :
                      IsSubstring(Lower(word), message_lower)

\* C17: should_respond on the empty message is false for every bot name and
\* every trigger-word list, and does not raise; with an empty trigger-word
\* list and an absent bot name it is false for every message.
C17_EmptyInputsNeverRespond ==
    Decided =>
        /\ ~ret.raised
        /\ ret.value.message = <<>> => ~ret.value.result
        /\ (service.trigger_words = {} /\ ret.value.bot_username = None)
              => ~ret.value.result

\* The empty message has been decided by a service that has trigger words,
\* for a bot that has a name.
C17_Witness ==
    /\ Decided
    /\ ret.value.message = <<>>
    /\ service.trigger_words # {}
    /\ Truthy(ret.value.bot_username)


(***************************************************************************)
(* Claims about the message pipeline, checked under Spec.                  *)
(***************************************************************************)
Quiescent == \A p \in Procs : proc[p].pc \in {"idle", "done"}

\* C6: when the loaded settings hold a fallback configuration, a pipeline
\* whose primary backend call has failed gets its reply from the fallback:
\* it is suspended at the fallback call, or has made it with the configured
\* fallback model.
C6_PipelineFailsOverToConfiguredFallback ==
    \A p \in Procs :
        (/\ settings.fallback_ai # None
         /\ proc[p].caller = "handler"
         /\ proc[p].calls # <<>>
         /\ ~proc[p].calls[1].outcome.ok) =>
            \/ proc[p].pc = "fallback"
            \/ /\ Len(proc[p].calls) >= 2
               /\ proc[p].calls[2].backend = "fallback"
               /\ proc[p].calls[2].model = settings.fallback_ai

\* C8: when no pipeline is in flight, and no store call was refused and no
\* delivery failed, every chat history holds at most context_window_size
\* messages.
C8_ChatHistoryWithinWindow ==
    (Quiescent /\ ~faulted) =>
        \A c \in Chats : get_context_size(Store, c) <= settings.bot.context_window_size


\* The stored forms of the inbound message of the current run in a list.
InboundIn(list) ==
    {e \in SeqToSet(list) :
        /\ DecodeOutcome(e.data) = "ok"
        /\ e.data.obj.message_id = nUpdates
        /\ e.data.obj.user_id = req.user_id
        /\ e.data.obj.message = req.text}

\* C18: when the respond decision of a run has been taken, the inbound
\* message is in the chat history and in the sender's participant history,
\* stored in this order, whatever the decision was; after a negative
\* decision no completion request is made and nothing is delivered.
C18_StoredBeforeDecision ==
    (req.caller = "handler" /\ req.should_respond # "unset") =>
        LET chat == InboundIn(redis[get_context_key(req.chat_id)])
            user == InboundIn(redis[get_user_context_key(req.chat_id, req.user_id)])
        IN  /\ chat # {}
            /\ user # {}
            /\ \A c \in chat, u \in user : c.ins < u.ins
            /\ req.should_respond = "false" =>
                  /\ req.pc = "done"
                  /\ req.calls = <<>>
                  /\ req.messages = <<>>
                  /\ \A i \in 1..Len(sent) : sent[i].p # 1

\* A message that triggers no reply has been handled.
C18_Witness ==
    /\ req.caller = "handler"
    /\ req.should_respond = "false"
    /\ req.pc = "done"
    /\ InboundIn(redis[get_user_context_key(req.chat_id, req.user_id)]) # {}


\* A triggering message has been handled to the end, and no store call, no
\* completion call and no delivery of the run has failed.
HandledWithoutFailure ==
    /\ req.caller = "handler"
    /\ req.should_respond = "true"
    /\ req.pc = "done"
    /\ req.failures = 0
    /\ \A i \in 1..Len(req.calls) : req.calls[i].outcome.ok

\* The two newest entries of a list are the inbound message of the run and,
\* newer, the bot's reply; they were pushed as the fourth-to-last (or
\* third-to-last) and the second-to-last (or last) push of all.
GainedInboundAndReply(list, last) ==
    /\ Len(list) >= 2
    /\ list[2] \in InboundIn(list)
    /\ list[2].ins = last - 2
    /\ list[1].ins = last
    /\ DecodeOutcome(list[1].data) = "ok"
    /\ list[1].data.obj.user_id = BotId
    /\ list[1].data.obj.message = req.response.content

\* C19: for a triggering message whose store, completion and delivery calls
\* all succeed, one completion request is made, one message is delivered to
\* the chat with the content of the completion result as its text, and the
\* chat history and the sender's participant history each gain two entries,
\* the inbound message and then the bot's reply.
C19_OneRequestOneDeliveryTwoEntries ==
    HandledWithoutFailure =>
        /\ Len(req.calls) = 1
        /\ SelectSeq(sent, LAMBDA d : d.p = 1) =
              <<Delivery(1, req.chat_id, req.response.content)>>
        /\ req.response.content =
              IF Truthy(req.calls[1].outcome.content)
              THEN req.calls[1].outcome.content ELSE CANNOT_ANSWER
        /\ GainedInboundAndReply(redis[get_context_key(req.chat_id)], nIns - 1)
        /\ GainedInboundAndReply(redis[get_user_context_key(req.chat_id, req.user_id)],
                                 nIns)

\* A reply with the backend's text has been delivered and stored in a chat
\* whose window holds one message.
C19_Witness ==
    /\ HandledWithoutFailure
    /\ req.response.content = <<"y", "e", "s">>
    /\ settings.bot.context_window_size = 1


\* The run's append of the inbound message to the chat history or to the
\* participant history has failed: the message is not in the list.
InboundAppendFailed ==
    /\ req.caller = "handler"
    /\ \/ InboundIn(redis[get_context_key(req.chat_id)]) = {}
       \/ InboundIn(redis[get_user_context_key(req.chat_id, req.user_id)]) = {}

\* C20: when the append of an inbound message fails because the store is
\* unavailable, the run still takes the respond decision and, for a
\* triggering message, still requests a completion.
C20_AppendFailureDoesNotBlock ==
    InboundAppendFailed =>
        /\ req.should_respond # "unset"
        /\ should_respond_to_message(service, req.text, settings.telegram.bot_username)
              => (req.pc = "primary" \/ req.calls # <<>>)


\* C21: when the read of the chat history or of the participant history
\* finds the store unavailable during response generation, the run goes on
\* to request a completion, with a degraded or empty history.
C21_ReadFailureStillRequests ==
    (/\ req.caller = "handler"
     /\ req.fault \in {"get_context", "get_user_context"}) =>
        (req.pc = "primary" \/ req.calls # <<>>)


\* C32: a step that appends a reply of the bot to a chat history or to a
\* participant history is a step in which the reply has been delivered: the
\* step adds one delivery, to that chat and with the reply as its text.  A
\* step in which the delivery fails adds no delivery, and so appends no
\* reply to either history.
C32_ReplyStoredAfterDelivery ==
    [][ \A k \in Keys : \A i \in 1..Len(redis'[k]) :
            LET e == redis'[k][i]
            IN  (e.ins > nIns /\ e.data.obj.user_id = BotId) =>
                    /\ Len(sent') = Len(sent) + 1
                    /\ sent'[Len(sent')].chat_id = k[2]
                    /\ sent'[Len(sent')].text = e.data.obj.message
      ]_vars

\* The delivery of a reply has failed: the run is at the apology with a
\* completion result and without a delivery.
C32_Witness ==
    /\ req.caller = "handler"
    /\ req.pc = "apology"
    /\ req.calls # <<>>
    /\ req.response # NoResponse
    /\ SelectSeq(sent, LAMBDA d : d.p = 1) = <<>>

\* The deliveries of the run of the pipeline.
Delivered == SelectSeq(sent, LAMBDA d : d.p = 1)

\* C33: a run of the pipeline delivers at most one message to the chat, the
\* content of the completion result or the apology, whichever store,
\* completion or delivery call fails.
C33_AtMostOneDelivery ==
    req.caller = "handler" =>
        /\ Len(Delivered) <= 1
        /\ \A i \in 1..Len(Delivered) :
              Delivered[i].text \in {req.response.content, APOLOGY}

\* The steps of a pipeline that call the store.
PipelineOps == {"handle_message", "send_message", "clear_command"}

\* C30: whatever the pipelines' steps interleave to, a step that changes a
\* history or its time-to-live is a step of a pipeline on a chat A
\* (handling a message of A, storing the reply to it, or the clear command
\* on A) and the history is one of A: the chat history and the participant
\* histories of every other chat stay as they are.  The keys of two chats
\* have different texts, also when the id of one chat is the beginning of
\* the id of the other.
C30_OtherChatsUnchanged ==
    [][ /\ \A k \in Keys :
              (redis'[k] # redis[k] \/ ttl'[k] # ttl[k]) =>
                  (ret'.op \in PipelineOps /\ k[2] = ret'.chat_id)
        /\ \A k1, k2 \in Keys : key_text(k1) = key_text(k2) => k1 = k2
      ]_vars

\* The reply to a message of chat 1 has been stored while a pipeline is
\* suspended on a message of chat 12, whose histories hold its message.
C30_Witness ==
    /\ ret.op = "send_message"
    /\ ret.chat_id = 1
    /\ Len(redis[get_context_key(1)]) >= 1
    /\ \E p \in Procs : proc[p].pc = "primary" /\ proc[p].chat_id = 12
    /\ redis[get_context_key(12)] # <<>>
    /\ redis[get_user_context_key(12, 1)] # <<>>


\* C34: however the pipelines of messages of one chat interleave, the
\* history that the pipeline of a message m reads ends with m (m is not
\* trimmed away and no other message has taken its place), and the turns
\* requested from the backend for m end with a user turn whose content ends
\* with the text of m.
C34_PromptEndsWithInbound ==
    [][ \A p \in Procs :
            (/\ ret'.op = "handle_message"
             /\ proc'[p] # proc[p]
             /\ proc'[p].pc = "primary") =>
                LET context == proc'[p].args.context
                    turns   == proc'[p].messages
                IN  /\ context # <<>>
                    /\ context[Len(context)].message_id = nUpdates'
                    /\ context[Len(context)].user_id = proc'[p].user_id
                    /\ context[Len(context)].message = proc'[p].text
                    /\ turns[Len(turns)].role = "user"
                    /\ IsSuffix(proc'[p].text, turns[Len(turns)].content)
      ]_vars

\* The requests for two messages of chat 1, from two senders, are in flight
\* at the same time, and the chat history is trimmed to its window.
C34_Witness ==
    /\ \A p \in Procs : proc[p].pc = "primary" /\ proc[p].chat_id = 1
    /\ proc[1].user_id # proc[2].user_id
    /\ Len(redis[get_context_key(1)]) = settings.bot.context_window_size


\* C35: in the turns that a run of the pipeline requests from the backend,
\* every message of the chat history that the bot has stored as its reply is
\* an assistant turn whose content is the reply's text alone, whatever the
\* configured bot username is.
C35_StoredReplyIsAssistantTurn ==
    (req.caller = "handler" /\ req.messages # <<>>) =>
        \A i \in 1..Len(req.args.context) :
            req.args.context[i].user_id = BotId =>
                req.messages[i + 1] = Turn("assistant", req.args.context[i].message)

=============================================================================
